---- MODULE Spec2Model ----
(***************************************************************************)
(* Model of capi-crawler.py: a depth-first crawl of a HATEOAS API that     *)
(* builds a graph of resource types.                                       *)
(*                                                                         *)
(* Strings are modelled as sequences of tokens.  A token is a piece of     *)
(* text that the program's string operations treat as a unit: the path     *)
(* separator "/", a UUID (one match of guid_pattern), the literals "web",  *)
(* "v3" and "download", and any other run of characters that contains      *)
(* none of these.  Substring tests and substitutions of the source then    *)
(* become tests and substitutions on tokens, and they still act inside a   *)
(* segment (<<"web", "hooks">> is the segment webhooks).  One token, H7, is *)
(* a UUID short of its first digit: guid_pattern matches it together with  *)
(* a hexadecimal digit that ends the token before it.                      *)
(***************************************************************************)
EXTENDS Integers, Sequences, FiniteSets, TLC

VARIABLES
    main_pc,        \* position of main(): "init", "crawling", "crawled", "drawn", "crashed"
    stack,          \* call stack of find_all_paths, innermost frame last
    visited_paths,  \* Crawler.visited_paths
    graph,          \* the ResourceGraph object
    response,       \* what CfApi.get produced in the get_links_from_endpoint call that raised
    fetches,        \* endpoints passed to CfApi.get, in order
    invocations,    \* root_sans_guid of every find_all_paths call (the line-123 output)
    error,          \* the uncaught exception that ended the program, or "None"
    served,         \* history: the link lists get_links_from_endpoint returned, in order
    g_op,           \* last ResourceGraph operation applied by the graph driver
    p_op            \* last ResourcePath operation applied by the path driver

vars == <<main_pc, stack, visited_paths, graph, response, fetches, invocations, error, served, g_op, p_op>>

(***************************************************************************)
(* Bounds                                                                  *)
(***************************************************************************)
\* most links in one document
MaxLinks == 2
\* nested find_all_paths calls the interpreter allows; the crawl nests one call
\* per followable canonical path of the API below, the root included
RecursionLimit == 3
\* most vertices / edges the graph driver builds
MaxVertices == 3
MaxEdges == 2

None == "None"

(***************************************************************************)
(* Text                                                                    *)
(***************************************************************************)
G1 == "11111111-1111-1111-1111-111111111111"
G2 == "AAAAAAAA-2222-2222-2222-222222222222"

\* the tokens that guid_pattern (case-insensitive) matches
guid_pattern == {G1, G2}

\* the last 35 characters of a UUID
H7 == "1234567-1111-1111-1111-111111111111"

\* the tokens of the model, other than UUIDs, whose last character is a
\* hexadecimal digit ([0-9a-f], case-insensitive)
HexEnded == {":guid", ":type", "web", "v3", "v2", "download", "abc-guid", "xyz-guid", H7}

\* such a token without its last character
hex_stem(t) ==
    CASE t = ":guid" -> ":gui"
      [] t = ":type" -> ":typ"
      [] t = "web" -> "we"
      [] t = "v3" -> "v"
      [] t = "v2" -> "v"
      [] t = "download" -> "downloa"
      [] t = "abc-guid" -> "abc-gui"
      [] t = "xyz-guid" -> "xyz-gui"
      [] t = H7 -> "1234567-1111-1111-1111-11111111111"
      [] OTHER -> t

guid_placeholder == ":guid"
type_placeholder == ":type"
placeholders == {<<guid_placeholder>>, <<type_placeholder>>}

\* lit in s, for a literal that is one token
Contains(s, lit) == \E i \in DOMAIN s : s[i] = lit

\* s.replace(old, new) / pattern.sub(new, s) on tokens
Replace(s, olds, new) == [i \in DOMAIN s |-> IF s[i] \in olds THEN new ELSE s[i]]

\* F(v), with v evaluated once rather than at each of its uses in F
Bind(v, F(_)) == CHOOSE r \in {F(x) : x \in {v}} : TRUE

\* the k-th smallest element of a set of numbers
Nth(S, k) == CHOOSE x \in S : Cardinality({y \in S : y < x}) = k - 1

\* the segments of s, given the positions seps of its separators (in order)
Segments(s, seps) ==
    LET n == Len(seps)
    IN  [k \in 1..(n + 1) |->
            SubSeq(s, IF k = 1 THEN 1 ELSE seps[k - 1] + 1,
                      IF k = n + 1 THEN Len(s) ELSE seps[k] - 1)]

\* s.split('/'): the segments, empty ones included
Split(s) ==
    Bind(s, LAMBDA t : Bind(SelectSeq([i \in DOMAIN t |-> i], LAMBDA i : t[i] = "/"),
                            LAMBDA seps : Segments(t, seps)))

\* the part of s before its first token in stops
TakeUntil(s, stops) ==
    LET hits == {i \in DOMAIN s : s[i] \in stops}
    IN  IF hits = {} THEN s ELSE SubSeq(s, 1, Nth(hits, 1) - 1)

\* the part of s from its first token in stops on
DropUntil(s, stops) ==
    LET hits == {i \in DOMAIN s : s[i] \in stops}
    IN  IF hits = {} THEN <<>> ELSE SubSeq(s, Nth(hits, 1), Len(s))

\* urlparse(href).path: scheme and network location stripped, query and fragment cut
urlparse_path(href) ==
    LET noScheme == IF href # <<>> /\ Head(href) \in {"http:", "https:"} THEN Tail(href) ELSE href
        noNetloc == IF Len(noScheme) >= 2 /\ noScheme[1] = "/" /\ noScheme[2] = "/"
                    THEN DropUntil(SubSeq(noScheme, 3, Len(noScheme)), {"/", "?", "#"})
                    ELSE noScheme
    IN  TakeUntil(noNetloc, {"?", "#"})

(***************************************************************************)
(* ResourcePath                                                            *)
(***************************************************************************)
\* the first position of the run of H7 tokens that ends at position i
RunStart(s, i) ==
    CHOOSE r \in 1..i : (\A k \in r..i : s[k] = H7) /\ (r = 1 \/ s[r - 1] # H7)

\* guid_pattern has a match that starts at the last character of s[i-1] and
\* ends with s[i]: s[i] is H7, s[i-1] ends in a hexadecimal digit, and the scan
\* from the left has not used s[i-1] up in a match of its own
MatchesAcross(s, i) ==
    /\ s[i] = H7
    /\ \E r \in {RunStart(s, i)} :
          IF r > 1 /\ s[r - 1] \in HexEnded THEN (i - r) % 2 = 0 ELSE (i - r) % 2 = 1

\* mutant: the pattern is compiled without re.I
guid_sub_case_sensitive(s) == Replace(s, {G1}, guid_placeholder)

\* guid_pattern.sub(guid_placeholder, s): the matches, found from the left and
\* not overlapping, are replaced
guid_sub(s) ==
    [i \in DOMAIN s |->
        IF s[i] \in guid_pattern \/ MatchesAcross(s, i) THEN guid_placeholder
        ELSE IF i < Len(s) /\ MatchesAcross(s, i + 1) THEN hex_stem(s[i])
        ELSE s[i]]

generic_path(path) ==
    LET sub_guids == guid_sub(path)
    IN  Replace(sub_guids, {"web"}, type_placeholder)

non_guid_segments(path) ==
    LET segments == Split(generic_path(path))
    IN  SelectSeq(segments, LAMBDA segment : segment \notin placeholders)

\* non_guid_segments[-1] raises IndexError on an empty list
infer_resource_raises(path) == non_guid_segments(path) = <<>>

\* the last segment that is not a placeholder
infer_resource(path) == Bind(non_guid_segments(path), LAMBDA segs : segs[Len(segs)])

(***************************************************************************)
(* Link                                                                    *)
(***************************************************************************)
Link(linkDict) ==
    [href |-> linkDict.href, method |-> linkDict.method, path |-> urlparse_path(linkDict.href)]

\* mutant: a link without a method does not count as a read
is_read_get_only(link) == link.method = "GET"

is_read(link) == link.method \in {"GET", None}

\* mutant: only a href that begins with /v3 counts as v3
is_v3_prefix(link) == Len(link.href) >= 2 /\ link.href[1] = "/" /\ link.href[2] = "v3"

is_v3(link) == Contains(link.href, "v3")

\* mutant: the download marker is never recognised
is_download_never(link) == FALSE

is_download(link) == Contains(link.href, "download")

(***************************************************************************)
(* ResourceGraph.  Vertices and edges of the underlying graph are numbered *)
(* from 1 in creation order; v_names, v_colors and e_names are the         *)
(* property maps, vertices and edges the two dictionaries.                 *)
(***************************************************************************)
v3_color == "#1C366B"
v2_color == "#1DACE8"

EmptyGraph ==
    [elist |-> <<>>, v_names |-> <<>>, v_colors |-> <<>>, e_names |-> <<>>,
     vertices |-> <<>>, edges |-> <<>>]

\* d[k] = v on a dictionary: the key is added or rebound
DictSet(d, k, v) == [x \in DOMAIN d \cup {k} |-> IF x = k THEN v ELSE d[x]]

add_resource(g, resource_name, isv3) ==
    LET vertex == Len(g.v_names) + 1
    IN  [g EXCEPT !.v_names = Append(@, resource_name),
                  !.v_colors = Append(@, IF isv3 THEN v3_color ELSE v2_color),
                  !.vertices = DictSet(@, resource_name, vertex)]

\* mutant: the name index is never consulted
has_resource_never(g, resource_name) == FALSE

has_resource(g, resource_name) == resource_name \in DOMAIN g.vertices

\* mutant: the source is left out of the key
edge_id_without_source(source_name, destination_name, name) ==
    name \o <<" -- ">> \o destination_name

edge_id(source_name, destination_name, name) ==
    name \o <<" -- ">> \o source_name \o <<" -- ">> \o destination_name

\* self.vertices[...] raises KeyError for a name that is no key
add_link_raises(g, source_name, destination_name) ==
    source_name \notin DOMAIN g.vertices \/ destination_name \notin DOMAIN g.vertices

\* mutant: the edge is drawn from the destination to the source
add_link_reversed(g, source_name, destination_name, name) ==
    [g EXCEPT !.elist = Append(@, <<g.vertices[destination_name], g.vertices[source_name]>>),
              !.edges = DictSet(@, edge_id(source_name, destination_name, name), Len(g.elist) + 1),
              !.e_names = Append(@, name)]

add_link(g, source_name, destination_name, name) ==
    LET source == g.vertices[source_name]
        destination == g.vertices[destination_name]
        edge == Len(g.elist) + 1
    IN  [g EXCEPT !.elist = Append(@, <<source, destination>>),
                  !.edges = DictSet(@, edge_id(source_name, destination_name, name), edge),
                  !.e_names = Append(@, name)]

\* mutant: an edge counts as present as soon as any edge carries the relation label
has_link_by_label(g, source_name, destination_name, name) ==
    \E e \in DOMAIN g.e_names : g.e_names[e] = name

has_link(g, source_name, destination_name, name) ==
    edge_id(source_name, destination_name, name) \in DOMAIN g.edges

(***************************************************************************)
(* The API: the link dictionaries and documents CfApi.get may return       *)
(***************************************************************************)
root_path == <<"/", "v3">>

LinkDicts == <<
    [href |-> <<"/", "v3", "/", "apps">>, method |-> "GET"],
    [href |-> <<"https:", "/", "/", "api.example.org", "/", "v3", "/", "apps", "/", G1>>, method |-> None],
    [href |-> <<"/", "v3", "/", "apps", "/", G2>>, method |-> "GET"],
    [href |-> <<"/", "v3", "/", "droplets", "/", G1, "/", "download">>, method |-> "GET"],
    [href |-> <<"/", "v2", "/", "spaces", "/", G2>>, method |-> None],
    [href |-> <<"/", "v3", "/", "apps", "/", G1, "/", "actions", "/", "start">>, method |-> "POST"] >>

\* the entries of LinkDicts at the positions in S, in order
Pick(S) == [k \in 1..Cardinality(S) |-> LinkDicts[Nth(S, k)]]

\* the non-empty link collections a document may carry
LinkCollections ==
    { Pick(S) : S \in { T \in SUBSET DOMAIN LinkDicts : Cardinality(T) \in 1..MaxLinks } }

NoDoc == [keys |-> {}, links |-> <<>>, resources |-> <<>>]
Resource(keys, links) == [keys |-> keys, links |-> links]

\* documents with a link collection, under links or under the last resource
DocsWithLinks ==
    { [keys |-> {"links"}, links |-> ls, resources |-> <<>>] : ls \in LinkCollections }
    \cup { [keys |-> {"resources"}, links |-> <<>>,
            resources |-> <<Resource({}, <<>>), Resource({"links"}, ls)>>] : ls \in LinkCollections }

\* documents whose last resource has no links
DocsWithoutLinks ==
    { [keys |-> {"resources"}, links |-> <<>>, resources |-> <<Resource({}, <<>>)>>],
      [keys |-> {"links", "resources"}, links |-> <<>>, resources |-> <<Resource({"links"}, <<>>)>>] }

\* documents with no links and no usable resources list
DocsBroken ==
    { [keys |-> {}, links |-> <<>>, resources |-> <<>>],
      [keys |-> {"links"}, links |-> <<>>, resources |-> <<>>],
      [keys |-> {"resources"}, links |-> <<>>, resources |-> <<>>] }

FetchFailures == {"ConnectionError", "JSONDecodeError"}

Ok(doc) == [status |-> "ok", doc |-> doc]
Failed(exc) == [status |-> exc, doc |-> NoDoc]
\* no call of get_links_from_endpoint is active or has raised
NoResponse == [status |-> "none", doc |-> NoDoc]

(***************************************************************************)
(* Crawler                                                                 *)
(***************************************************************************)
\* the exception line 149 raises on this document, or None
response_links_raises(doc) ==
    IF "links" \in doc.keys /\ doc.links # <<>> THEN None
    ELSE IF "resources" \notin doc.keys THEN "TypeError"
    ELSE IF doc.resources = <<>> THEN "IndexError"
    ELSE None

\* response.get('links') or response.get('resources')[-1].get('links'); <<>> when falsy
response_links(doc) ==
    IF "links" \in doc.keys /\ doc.links # <<>> THEN doc.links
    ELSE LET last == doc.resources[Len(doc.resources)]
         IN  IF "links" \in last.keys THEN last.links ELSE <<>>

\* the Link objects of a document on which line 149 does not raise
get_links_from_endpoint(doc) ==
    LET link_dicts == response_links(doc)
    IN  [i \in DOMAIN link_dicts |-> Link(link_dicts[i])]

\* mutant: only the resources of v3 links get a vertex
add_resource_if_new_v3_only(g, resource_name, isv3) ==
    IF ~has_resource(g, resource_name) /\ isv3 THEN add_resource(g, resource_name, isv3) ELSE g

\* lines 127-128 and 138-139: add the vertex unless the name has one
add_resource_if_new(g, resource_name, isv3) ==
    IF ~has_resource(g, resource_name) THEN add_resource(g, resource_name, isv3) ELSE g

\* lines 141-142: add the edge unless the triple has one
add_link_if_new(g, source_name, destination_name, name) ==
    IF ~has_link(g, source_name, destination_name, name)
    THEN add_link(g, source_name, destination_name, name) ELSE g

\* mutant: the visited set is not consulted
should_recurse_ignoring_visited(link, path_sans_guid, visited) ==
    is_read(link) /\ is_v3(link) /\ ~is_download(link)

\* line 144
should_recurse(link, path_sans_guid, visited) ==
    is_read(link) /\ is_v3(link) /\ ~is_download(link) /\ path_sans_guid \notin visited

NoOp == [op |-> "none", had |-> FALSE, args |-> <<>>]
NoPathOp == [op |-> "none", segs |-> <<>>, path |-> <<>>, out |-> <<>>, raised |-> FALSE]

Frame(root) ==
    [pc |-> "enter", root |-> root, root_sans_guid |-> <<>>, resource_name |-> <<>>,
     links |-> <<>>, i |-> 1]

Top == stack[Len(stack)]
SetTop(f) == [stack EXCEPT ![Len(stack)] = f]

\* mutant: main() catches the exception and goes on to draw
Raise_caught_by_main(exc) ==
    /\ main_pc' = "crawled"
    /\ error' = exc
    /\ stack' = <<>>

\* an uncaught exception unwinds every frame and ends main()
Raise(exc) ==
    /\ main_pc' = "crashed"
    /\ error' = exc
    /\ stack' = <<>>

Init ==
    /\ main_pc = "init"
    /\ stack = <<>>
    /\ visited_paths = {}
    /\ graph = EmptyGraph
    /\ response = NoResponse
    /\ fetches = <<>>
    /\ invocations = <<>>
    /\ error = None
    /\ served = <<>>
    /\ g_op = NoOp
    /\ p_op = NoPathOp

\* main(), line 164: crawler.find_all_paths(CfApi.root_path)
Main_Call ==
    /\ main_pc = "init"
    /\ main_pc' = "crawling"
    /\ stack' = <<Frame(root_path)>>
    /\ UNCHANGED <<visited_paths, graph, response, fetches, invocations, error, served, g_op, p_op>>

\* mutant: line 125 is missing, the path is not marked as visited
Enter_without_marking ==
    /\ main_pc = "crawling" /\ stack # <<>> /\ Top.pc = "enter"
    /\ IF infer_resource_raises(Top.root)
       THEN /\ Raise("IndexError")
            /\ UNCHANGED <<graph, invocations>>
       ELSE \E root_sans_guid \in {generic_path(Top.root)}, resource_name \in {infer_resource(Top.root)} :
                /\ invocations' = Append(invocations, root_sans_guid)
                /\ graph' = add_resource_if_new(graph, resource_name, TRUE)
                /\ stack' = SetTop([Top EXCEPT !.pc = "fetch",
                                               !.root_sans_guid = root_sans_guid,
                                               !.resource_name = resource_name])
                /\ UNCHANGED <<main_pc, error>>
    /\ UNCHANGED <<visited_paths, response, fetches, served, g_op, p_op>>

\* find_all_paths, lines 119-128
Enter ==
    /\ main_pc = "crawling" /\ stack # <<>> /\ Top.pc = "enter"
    /\ IF infer_resource_raises(Top.root)
       THEN /\ Raise("IndexError")
            /\ UNCHANGED <<visited_paths, graph, invocations>>
       ELSE \E root_sans_guid \in {generic_path(Top.root)}, resource_name \in {infer_resource(Top.root)} :
                /\ invocations' = Append(invocations, root_sans_guid)
                /\ visited_paths' = visited_paths \cup {root_sans_guid}
                /\ graph' = add_resource_if_new(graph, resource_name, TRUE)
                /\ stack' = SetTop([Top EXCEPT !.pc = "fetch",
                                               !.root_sans_guid = root_sans_guid,
                                               !.resource_name = resource_name])
                /\ UNCHANGED <<main_pc, error>>
    /\ UNCHANGED <<response, fetches, served, g_op, p_op>>

\* line 130 up to the loop: get_links_from_endpoint(root) with CfApi.get answering r
FetchStep(r) ==
    /\ fetches' = Append(fetches, Top.root)
    /\ IF r.status # "ok" THEN Raise(r.status) /\ response' = r
       ELSE IF response_links_raises(r.doc) # None
       THEN Raise(response_links_raises(r.doc)) /\ response' = r
       ELSE /\ stack' = SetTop([Top EXCEPT !.pc = "loop", !.links = get_links_from_endpoint(r.doc)])
            /\ response' = NoResponse
            /\ UNCHANGED <<main_pc, error>>
    /\ UNCHANGED <<visited_paths, graph, invocations, g_op, p_op>>

\* the document has a link collection
FetchLinks ==
    /\ main_pc = "crawling" /\ stack # <<>> /\ Top.pc = "fetch"
    /\ \E doc \in DocsWithLinks : FetchStep(Ok(doc))
    /\ UNCHANGED served

\* the document has none, and line 154 reports it
FetchNoLinks ==
    /\ main_pc = "crawling" /\ stack # <<>> /\ Top.pc = "fetch"
    /\ \E doc \in DocsWithoutLinks : FetchStep(Ok(doc))
    /\ UNCHANGED served

\* requests.get or r.json() raises
FetchFails ==
    /\ main_pc = "crawling" /\ stack # <<>> /\ Top.pc = "fetch"
    /\ \E exc \in FetchFailures : FetchStep(Failed(exc))
    /\ UNCHANGED served

\* the document is parsed, and line 149 raises on it
FetchBroken ==
    /\ main_pc = "crawling" /\ stack # <<>> /\ Top.pc = "fetch"
    /\ \E doc \in DocsBroken : FetchStep(Ok(doc))
    /\ UNCHANGED served

\* one iteration of the loop, lines 131-145, up to the nested call; the bound
\* names are the local variables of the source
ProcessLink ==
    /\ main_pc = "crawling" /\ stack # <<>> /\ Top.pc = "loop" /\ Top.i <= Len(Top.links)
    /\ \E link \in {Top.links[Top.i]}, resource_name \in {Top.resource_name},
          advanced \in {SetTop([Top EXCEPT !.i = @ + 1])} :
       \E path_sans_guid \in {generic_path(link.path)} :
          IF infer_resource_raises(link.path)
          THEN Raise("IndexError") /\ UNCHANGED graph
          ELSE \E linked_resource_name \in {infer_resource(link.path)} :
               \E g1 \in {add_resource_if_new(graph, linked_resource_name, is_v3(link))} :
                  IF /\ ~has_link(g1, resource_name, linked_resource_name, path_sans_guid)
                     /\ add_link_raises(g1, resource_name, linked_resource_name)
                  THEN Raise("KeyError") /\ graph' = g1
                  ELSE /\ graph' = add_link_if_new(g1, resource_name, linked_resource_name, path_sans_guid)
                       /\ IF should_recurse(link, path_sans_guid, visited_paths)
                          THEN IF Len(stack) >= RecursionLimit
                               THEN Raise("RecursionError")
                               ELSE /\ stack' = Append(advanced, Frame(link.path))
                                    /\ UNCHANGED <<main_pc, error>>
                          ELSE /\ stack' = advanced
                               /\ UNCHANGED <<main_pc, error>>
    /\ UNCHANGED <<visited_paths, response, fetches, invocations, served, g_op, p_op>>

\* the loop is exhausted: find_all_paths returns to its caller
Return ==
    /\ main_pc = "crawling" /\ stack # <<>> /\ Top.pc = "loop" /\ Top.i > Len(Top.links)
    /\ stack' = SubSeq(stack, 1, Len(stack) - 1)
    /\ main_pc' = IF Len(stack) = 1 THEN "crawled" ELSE main_pc
    /\ UNCHANGED <<visited_paths, graph, response, fetches, invocations, error, served, g_op, p_op>>

\* main(), lines 165-166; graph.vertex(0) needs a vertex
Draw ==
    /\ main_pc = "crawled"
    /\ IF graph.v_names = <<>>
       THEN Raise("ValueError")
       ELSE main_pc' = "drawn" /\ UNCHANGED <<stack, error>>
    /\ UNCHANGED <<visited_paths, graph, response, fetches, invocations, served, g_op, p_op>>

Next ==
    \/ Main_Call
    \/ Enter
    \/ FetchLinks
    \/ FetchNoLinks
    \/ FetchFails
    \/ FetchBroken
    \/ ProcessLink
    \/ Return
    \/ Draw

Spec == Init /\ [][Next]_vars

(***************************************************************************)
(* ResourceGraph driven on its own: a caller applies the four insertion    *)
(* forms (the bare methods, and the guarded forms find_all_paths uses) in  *)
(* any order; g_op records the form applied, its arguments, and whether    *)
(* has_resource / has_link held before it.                                 *)
(***************************************************************************)
DriverNames == {<<"apps">>, <<"droplets">>}
DriverRelations ==
    { <<"/", "v3", "/", "apps">>,
      <<"/", "v3", "/", "apps", "/", guid_placeholder, "/", "droplets">> }

InitG ==
    /\ main_pc = "graph"
    /\ stack = <<>>
    /\ visited_paths = {}
    /\ graph = EmptyGraph
    /\ response = NoResponse
    /\ fetches = <<>>
    /\ invocations = <<>>
    /\ error = None
    /\ served = <<>>
    /\ g_op = NoOp
    /\ p_op = NoPathOp

UnchangedCrawl ==
    UNCHANGED <<main_pc, stack, visited_paths, response, fetches, invocations, error, served, p_op>>

\* graph.add_resource(name)
G_add_resource ==
    /\ main_pc = "graph" /\ Len(graph.v_names) < MaxVertices
    /\ \E name \in DriverNames :
          /\ graph' = add_resource(graph, name, TRUE)
          /\ g_op' = [op |-> "add_resource", had |-> has_resource(graph, name), args |-> <<name>>]
    /\ UnchangedCrawl

\* if not graph.has_resource(name): graph.add_resource(name)
G_add_resource_if_new ==
    /\ main_pc = "graph" /\ Len(graph.v_names) < MaxVertices
    /\ \E name \in DriverNames :
          /\ graph' = add_resource_if_new(graph, name, TRUE)
          /\ g_op' = [op |-> "add_resource_if_new", had |-> has_resource(graph, name), args |-> <<name>>]
    /\ UnchangedCrawl

\* graph.add_link(source, destination, name), between names that have vertices
G_add_link ==
    /\ main_pc = "graph" /\ Len(graph.elist) < MaxEdges
    /\ \E source \in DriverNames, destination \in DriverNames, name \in DriverRelations :
          /\ ~add_link_raises(graph, source, destination)
          /\ graph' = add_link(graph, source, destination, name)
          /\ g_op' = [op |-> "add_link", had |-> has_link(graph, source, destination, name),
                      args |-> <<source, destination, name>>]
    /\ UnchangedCrawl

\* if not graph.has_link(...): graph.add_link(...)
G_add_link_if_new ==
    /\ main_pc = "graph" /\ Len(graph.elist) < MaxEdges
    /\ \E source \in DriverNames, destination \in DriverNames, name \in DriverRelations :
          /\ ~add_link_raises(graph, source, destination)
          /\ graph' = add_link_if_new(graph, source, destination, name)
          /\ g_op' = [op |-> "add_link_if_new", had |-> has_link(graph, source, destination, name),
                      args |-> <<source, destination, name>>]
    /\ UnchangedCrawl

NextG ==
    \/ G_add_resource
    \/ G_add_resource_if_new
    \/ G_add_link
    \/ G_add_link_if_new

SpecG == InitG /\ [][NextG]_vars

\* the crawl over an API on which every fetch succeeds and line 149 does not
\* raise; the program is one sequential thread, which runs while it can
NextAnswering ==
    \/ Main_Call
    \/ Enter
    \/ FetchLinks
    \/ FetchNoLinks
    \/ ProcessLink
    \/ Return
    \/ Draw

LiveSpec == Init /\ [][NextAnswering]_vars /\ WF_vars(NextAnswering)

(***************************************************************************)
(* The crawl with its history kept: served records what each call of       *)
(* get_links_from_endpoint returned, in the order of fetches.              *)
(***************************************************************************)
FetchLinksRecorded ==
    /\ main_pc = "crawling" /\ stack # <<>> /\ Top.pc = "fetch"
    /\ \E doc \in DocsWithLinks :
          FetchStep(Ok(doc)) /\ served' = Append(served, get_links_from_endpoint(doc))

FetchNoLinksRecorded ==
    /\ main_pc = "crawling" /\ stack # <<>> /\ Top.pc = "fetch"
    /\ \E doc \in DocsWithoutLinks :
          FetchStep(Ok(doc)) /\ served' = Append(served, get_links_from_endpoint(doc))

NextH ==
    \/ Main_Call
    \/ Enter
    \/ FetchLinksRecorded
    \/ FetchNoLinksRecorded
    \/ ProcessLink
    \/ Return
    \/ Draw

SpecH == Init /\ [][NextH]_vars

(***************************************************************************)
(* The crawl of one small API: the root lists /v3/apps, /v3/apps lists one *)
(* app with a link to itself and a link to its droplet, and every other    *)
(* path answers with a document that has no links.  The two identifiers    *)
(* are UUIDs or the words abc-guid and xyz-guid.                           *)
(***************************************************************************)
ScenarioIds == {"abc-guid", "xyz-guid", G1, G2}

ScenarioRootDoc ==
    [keys |-> {"links"}, resources |-> <<>>,
     links |-> << [href |-> <<"/", "v3", "/", "apps">>, method |-> "GET"] >>]

ScenarioAppsDoc(app, droplet) ==
    [keys |-> {"resources"}, links |-> <<>>,
     resources |-> << Resource({"links"},
        << [href |-> <<"/", "v3", "/", "apps", "/", app>>, method |-> None],
           [href |-> <<"/", "v3", "/", "apps", "/", app, "/", "droplets", "/", droplet>>,
            method |-> "GET"] >>) >>]

\* {"resources": [{}]}, {"links": {}, "resources": [{"links": {}}]} and {"links": {}}
ScenarioLeafDocs == DocsWithoutLinks \cup {[keys |-> {"links"}, links |-> <<>>, resources |-> <<>>]}

ScenarioDocs(path, app, droplet) ==
    IF path = root_path THEN {ScenarioRootDoc}
    ELSE IF path = <<"/", "v3", "/", "apps">> THEN {ScenarioAppsDoc(app, droplet)}
    ELSE ScenarioLeafDocs

FetchScenario ==
    /\ main_pc = "crawling" /\ stack # <<>> /\ Top.pc = "fetch"
    /\ \E app \in ScenarioIds, droplet \in ScenarioIds :
       \E doc \in ScenarioDocs(Top.root, app, droplet) :
          /\ FetchStep(Ok(doc))
          /\ served' = IF response_links_raises(doc) = None
                       THEN Append(served, get_links_from_endpoint(doc)) ELSE served

NextE ==
    \/ Main_Call
    \/ Enter
    \/ FetchScenario
    \/ ProcessLink
    \/ Return
    \/ Draw

\* one sequential thread, which runs while it can
SpecE == Init /\ [][NextE]_vars /\ WF_vars(NextE)

(***************************************************************************)
(* ResourcePath driven on its own: generic_path and infer_resource are     *)
(* applied to a path built from the segments below; p_op records the       *)
(* operation, its argument (with the segments it was built from) and its   *)
(* outcome.                                                                *)
(***************************************************************************)
\* most segments in a driver path
MaxSegments == 4

DriverSegments ==
    { <<"v3">>, <<"apps">>, <<G1>>, <<G2>>, <<"web">>, <<"web", "hooks">>, <<G1, H7>> }

SegmentLists == UNION { [1..n -> DriverSegments] : n \in 1..MaxSegments }

\* the segments joined by "/"
RECURSIVE JoinSegments(_)
JoinSegments(segs) ==
    IF Len(segs) = 1 THEN segs[1]
    ELSE segs[1] \o <<"/">> \o JoinSegments(Tail(segs))

\* the absolute path of the segments
PathOf(segs) == <<"/">> \o JoinSegments(segs)

\* the driver holds a path and has applied nothing to it yet
InitN ==
    /\ main_pc = "paths"
    /\ stack = <<>>
    /\ visited_paths = {}
    /\ graph = EmptyGraph
    /\ response = NoResponse
    /\ fetches = <<>>
    /\ invocations = <<>>
    /\ error = None
    /\ served = <<>>
    /\ g_op = NoOp
    /\ \E segs \in SegmentLists :
          p_op = [op |-> "input", segs |-> segs, path |-> PathOf(segs), out |-> <<>>,
                  raised |-> FALSE]

UnchangedButPathOp ==
    UNCHANGED <<main_pc, stack, visited_paths, graph, response, fetches, invocations, error,
                served, g_op>>

\* ResourcePath(path).generic_path()
N_generic_path ==
    /\ main_pc = "paths" /\ p_op.op = "input"
    /\ p_op' = [p_op EXCEPT !.op = "generic_path", !.out = generic_path(p_op.path)]
    /\ UnchangedButPathOp

\* ResourcePath(canonical).generic_path(), for the canonical path just obtained
N_generic_path_again ==
    /\ main_pc = "paths" /\ p_op.op = "generic_path"
    /\ p_op' = [p_op EXCEPT !.op = "generic_path_again", !.path = p_op.out,
                            !.out = generic_path(p_op.out)]
    /\ UnchangedButPathOp

\* ResourcePath(twin).generic_path(), for a path that has other UUIDs where the
\* path just canonicalized has a UUID for a segment, and is the same elsewhere
N_generic_path_twin ==
    /\ main_pc = "paths" /\ p_op.op = "generic_path"
    /\ \E ids \in [DOMAIN p_op.segs -> guid_pattern] :
       \E twin \in {[k \in DOMAIN p_op.segs |->
                        IF p_op.segs[k] \in {<<G1>>, <<G2>>} THEN <<ids[k]>> ELSE p_op.segs[k]]} :
          p_op' = [p_op EXCEPT !.op = "generic_path_twin", !.segs = twin, !.path = PathOf(twin),
                               !.out = generic_path(PathOf(twin))]
    /\ UnchangedButPathOp

\* ResourcePath(path).infer_resource(), for the path or for the path without its
\* leading "/" (the path of a relative href)
N_infer_resource ==
    /\ main_pc = "paths" /\ p_op.op = "input"
    /\ \E path \in {p_op.path, Tail(p_op.path)} :
          p_op' = [p_op EXCEPT !.op = "infer_resource", !.path = path,
                               !.out = IF infer_resource_raises(path) THEN <<>>
                                       ELSE infer_resource(path),
                               !.raised = infer_resource_raises(path)]
    /\ UnchangedButPathOp

NextN ==
    \/ N_generic_path
    \/ N_generic_path_again
    \/ N_generic_path_twin
    \/ N_infer_resource

SpecN == InitN /\ [][NextN]_vars

(***************************************************************************)
(* Properties                                                              *)
(***************************************************************************)
Frames == {stack[k] : k \in DOMAIN stack}

\* the links of frame f that the loop has finished with
Processed(f) == IF f.pc = "loop" THEN 1..(f.i - 1) ELSE {}

\* followability read off the link's own attributes
FollowableByAttributes(l) ==
    /\ l.method \in {"GET", None}
    /\ \E k \in DOMAIN l.href : l.href[k] = "v3"
    /\ ~\E k \in DOMAIN l.href : l.href[k] = "download"

\* the underlying graph has a vertex of this name
VertexNamed(g, n) == \E v \in DOMAIN g.v_names : g.v_names[v] = n

\* the edges of the underlying graph that carry the triple (s, d, c)
EdgesOf(g, s, d, c) ==
    { e \in DOMAIN g.elist : /\ g.v_names[g.elist[e][1]] = s
                             /\ g.v_names[g.elist[e][2]] = d
                             /\ g.e_names[e] = c }

apps_path == <<"/", "v3", "/", "apps">>
app_path == <<"/", "v3", "/", "apps", "/", guid_placeholder>>

\* C1: no canonical path is expanded twice: the invocations of find_all_paths
\* have pairwise distinct canonical roots, so have the fetches, and a call that
\* is about to start is for a path that is not yet visited.
C1_NoPathExpandedTwice ==
    /\ \A a, b \in DOMAIN invocations : invocations[a] = invocations[b] => a = b
    /\ \A a, b \in DOMAIN fetches :
           generic_path(fetches[a]) = generic_path(fetches[b]) => a = b
    /\ \A f \in Frames : f.pc = "enter" => generic_path(f.root) \notin visited_paths

\* C1 witness: a document fetched for B holds a followable link back to an
\* ancestor A (a cycle), and the loop has gone past it.
C1_Witness ==
    \E a, b \in DOMAIN stack :
        /\ a < b
        /\ \E j \in Processed(stack[b]) :
              /\ FollowableByAttributes(stack[b].links[j])
              /\ generic_path(stack[b].links[j].path) = stack[a].root_sans_guid
              /\ stack[a].root_sans_guid # stack[b].root_sans_guid

\* C2: on an API whose fetches all succeed, find_all_paths(root) eventually
\* returns to main(), cycles and self-links notwithstanding, and no exception
\* (the interpreter's recursion limit included) ends the program before.
C2_CrawlReturns == [](main_pc # "crashed") /\ <>(main_pc = "crawled")

\* C2 witness: the crawl has returned after fetching /v3/apps or an app whose
\* document linked to /v3/apps (a self-link or a link back) and to an app.
C2_Witness ==
    /\ main_pc = "crawled"
    /\ Len(fetches) = 3
    /\ EdgesOf(graph, <<"apps">>, <<"apps">>, apps_path) # {}
    /\ EdgesOf(graph, <<"apps">>, <<"apps">>, app_path) # {}

\* C3: processing a link that is not followable (a write, a href outside v3,
\* or a download) starts no call, makes no fetch and leaves visited_paths alone.
C3_NonFollowableNeverFollowed ==
    [][ ( /\ main_pc = "crawling" /\ stack # <<>>
          /\ Top.pc = "loop" /\ Top.i <= Len(Top.links)
          /\ ~FollowableByAttributes(Top.links[Top.i]) )
        => ( /\ Len(stack') <= Len(stack)
             /\ fetches' = fetches
             /\ invocations' = invocations
             /\ visited_paths' = visited_paths ) ]_vars

\* C3 witness: the loop has gone past a POST link and a GET link to a download,
\* and the only fetches made are those of the frames on the stack.
C3_Witness ==
    /\ stack # <<>> /\ Top.pc = "loop" /\ Top.i = 3
    /\ Top.links[1].method = "GET" /\ Contains(Top.links[1].href, "download")
    /\ Top.links[2].method = "POST"
    /\ Len(fetches) = Len(stack)

\* C4: every link the loop has finished with has its destination vertex and
\* its edge (source type, destination type, canonical path) in the graph.
C4_EveryLinkHasItsEdge ==
    \A f \in Frames : \A j \in Processed(f) :
        LET c == generic_path(f.links[j].path)
            d == infer_resource(f.links[j].path)
        IN  /\ VertexNamed(graph, d)
            /\ EdgesOf(graph, f.resource_name, d, c) # {}

\* C4 witness: the loop has gone past a link that is not followable and past a
\* followable link whose canonical path was already visited.
C4_Witness ==
    \E f \in Frames : \E j, k \in Processed(f) :
        /\ ~FollowableByAttributes(f.links[j])
        /\ FollowableByAttributes(f.links[k])
        /\ generic_path(f.links[k].path) \in {g.root_sans_guid : g \in Frames}

\* C5: the graph is deduplicated: one vertex per name, one edge per triple.
C5_GraphDeduplicated ==
    /\ \A v, w \in DOMAIN graph.v_names : graph.v_names[v] = graph.v_names[w] => v = w
    /\ \A e \in DOMAIN graph.elist :
           Cardinality(EdgesOf(graph, graph.v_names[graph.elist[e][1]],
                                      graph.v_names[graph.elist[e][2]],
                                      graph.e_names[e])) = 1

\* C5 witness: two links of one document led to the same triple.
C5_Witness ==
    /\ stack # <<>> /\ Top.pc = "loop" /\ Top.i = 3
    /\ Top.links[1].href # Top.links[2].href
    /\ generic_path(Top.links[1].path) = generic_path(Top.links[2].path)

\* the document has a link collection in neither location
NoLinkCollection(doc) ==
    /\ "links" \notin doc.keys \/ doc.links = <<>>
    /\ \/ "resources" \notin doc.keys
       \/ doc.resources = <<>>
       \/ "links" \notin doc.resources[Len(doc.resources)].keys
       \/ doc.resources[Len(doc.resources)].links = <<>>

\* C6 (as claimed): a fetched document without a link collection is not fatal.
C6_NoLinksIsNonFatal ==
    (response.status = "ok" /\ NoLinkCollection(response.doc)) => main_pc # "crashed"

\* C7 (as claimed): a failed fetch of a path other than the root does not end
\* the program.
C7_FetchFailureAbortsOnlyThatPath ==
    (response.status \in FetchFailures /\ Len(fetches) > 1) => main_pc # "crashed"

RootFetchFailed == response.status \in FetchFailures /\ fetches = <<root_path>>

\* C8 (as claimed): when the fetch of the root fails, the graph and
\* visited_paths are still empty and the graph is not drawn.
C8_RootFailureBeforeGraphWork ==
    RootFetchFailed =>
        /\ graph.v_names = <<>> /\ graph.elist = <<>>
        /\ visited_paths = {}
        /\ main_pc # "drawn"

\* C8 (amended): when the fetch of the root fails, the program ends with the
\* exception and never draws; the graph then holds the root's vertex and no
\* edge, and visited_paths holds the root's canonical path.
C8_RootFailureIsFatal ==
    RootFetchFailed =>
        /\ main_pc = "crashed" /\ stack = <<>> /\ error = response.status
        /\ graph.v_names = << <<"v3">> >> /\ graph.elist = <<>>
        /\ visited_paths = {root_path}

\* C8 witness: the first fetch, of the root, raised.
C8_Witness == RootFetchFailed /\ error = "ConnectionError"

\* the vertices of the underlying graph named n
VerticesNamed(g, n) == {v \in DOMAIN g.v_names : g.v_names[v] = n}

C11_NoUnknownEndpoint ==
    /\ [](/\ error # "KeyError"
          /\ \A f \in Frames : f.pc # "enter" => has_resource(graph, f.resource_name)
          /\ \A e \in DOMAIN graph.elist :
                 graph.elist[e][1] \in DOMAIN graph.v_names /\ graph.elist[e][2] \in DOMAIN graph.v_names)
    /\ [][ /\ DOMAIN graph.vertices \subseteq DOMAIN graph'.vertices
           /\ Len(graph'.elist) > Len(graph.elist) =>
                 /\ has_resource(graph, Top.resource_name)
                 /\ graph'.elist[Len(graph'.elist)][1] = graph'.vertices[Top.resource_name]
                 /\ has_resource(graph', infer_resource(Top.links[Top.i].path))
                 /\ graph'.elist[Len(graph'.elist)][2] =
                        graph'.vertices[infer_resource(Top.links[Top.i].path)] ]_vars

\* C11 witness: an edge leads to a vertex that the step adding the edge had to
\* create, the vertex of a resource outside v3.
C11_Witness ==
    \E e \in DOMAIN graph.elist :
        /\ graph.v_colors[graph.elist[e][2]] = v2_color
        /\ graph.v_names[graph.elist[e][2]] = <<"spaces">>

\* the segment is one UUID and nothing else
IsIdentifierSegment(seg) == Len(seg) = 1 /\ seg[1] \in {G1, G2}

\* p and q have the same segments, except that where one has an identifier the
\* other may have another identifier
SameButIdentifiers(p, q) ==
    \E ps \in {Split(p)}, qs \in {Split(q)} :
        /\ Len(ps) = Len(qs)
        /\ \A k \in DOMAIN ps :
              ps[k] = qs[k] \/ (IsIdentifierSegment(ps[k]) /\ IsIdentifierSegment(qs[k]))

app_web_paths ==
    { <<"/", "v3", "/", "apps", "/", G1, "/", "web">>, <<"/", "v3", "/", "apps", "/", G2, "/", "web">> }

\* C12: two paths that differ only in the values of their identifier segments
\* have the same canonical path; /v3/apps/<uuid>/web is canonicalized to
\* /v3/apps/:guid/:type whatever the UUID (lower or upper case).
C12_CanonicalizationEquivalence ==
    /\ []((p_op.op \in {"generic_path", "generic_path_twin"} /\ p_op.path \in app_web_paths)
              => p_op.out = <<"/", "v3", "/", "apps", "/", ":guid", "/", ":type">>)
    /\ [][ (p_op'.op = "generic_path_twin" /\ SameButIdentifiers(p_op.path, p_op'.path))
              => p_op'.out = p_op.out ]_vars

\* C12 witness: the path with the upper-case UUID was canonicalized as the twin
\* of another path.
C12_Witness ==
    /\ p_op.op = "generic_path_twin"
    /\ p_op.path = <<"/", "v3", "/", "apps", "/", G2, "/", "web">>
    /\ p_op.out = <<"/", "v3", "/", "apps", "/", ":guid", "/", ":type">>

\* C13 (as claimed): canonicalizing a canonical path gives, segment for segment,
\* the same path.
C13_CanonicalizationIdempotent ==
    p_op.op = "generic_path_again" => Split(p_op.out) = Split(p_op.path)

\* no segment of the canonical path is a name: each is empty or a placeholder
NoUsableName(path) ==
    \A k \in DOMAIN Split(generic_path(path)) :
        Split(generic_path(path))[k] = <<>> \/ Split(generic_path(path))[k] \in placeholders

\* C14 (as claimed): infer_resource fails when no usable name remains, and never
\* returns an empty name.
C14_EmptyResourceNameFails ==
    p_op.op = "infer_resource" =>
        /\ NoUsableName(p_op.path) => p_op.raised
        /\ ~p_op.raised => p_op.out # <<>>

\* what replacing whole segments makes of a segment
WholeSegmentRule(seg) ==
    IF IsIdentifierSegment(seg) THEN <<guid_placeholder>>
    ELSE IF seg = <<"web">> THEN <<type_placeholder>>
    ELSE seg

\* C20 (as claimed): generic_path replaces whole segments only: a segment that
\* is a UUID becomes :guid, a segment that is web becomes :type, and every other
\* segment is left as it is.
C20_WholeSegmentsOnly ==
    p_op.op = "generic_path" =>
        /\ Len(Split(p_op.out)) = Len(Split(p_op.path))
        /\ \A k \in DOMAIN Split(p_op.path) :
               Split(p_op.out)[k] = WholeSegmentRule(Split(p_op.path)[k])

\* the names of the vertices, and the (source, destination, relation) of the edges
NodeNames(g) == {g.v_names[v] : v \in DOMAIN g.v_names}
EdgeTriples(g) ==
    {<<g.v_names[g.elist[e][1]], g.v_names[g.elist[e][2]], g.e_names[e]>> : e \in DOMAIN g.elist}
EdgePairs(g) == {<<t[1], t[2]>> : t \in EdgeTriples(g)}

\* the first two fetches were answered with the root document and with the
\* document of /v3/apps for these two identifiers
ScenarioServed(app, droplet) ==
    /\ Len(served) >= 2
    /\ served[1] = get_links_from_endpoint(ScenarioRootDoc)
    /\ served[2] = get_links_from_endpoint(ScenarioAppsDoc(app, droplet))

Returned == main_pc \in {"crawled", "drawn"}

\* C15 (as claimed): with the identifiers abc-guid and xyz-guid the crawl ends
\* with the nodes v3, apps, droplets and the edges v3 -> apps, apps -> apps,
\* apps -> droplets.
C15_ScenarioAsClaimed ==
    (ScenarioServed("abc-guid", "xyz-guid") /\ Returned) =>
        /\ NodeNames(graph) = {<<"v3">>, <<"apps">>, <<"droplets">>}
        /\ EdgePairs(graph) = { <<(<<"v3">>), (<<"apps">>)>>, <<(<<"apps">>), (<<"apps">>)>>,
                                <<(<<"apps">>), (<<"droplets">>)>> }

\* C15 (amended): the crawl of the scenario always ends; when it returns it has
\* fetched /v3, /v3/apps, the app and the droplet, once each and in this order.
\* With UUIDs for the two identifiers the graph then has the nodes v3, apps,
\* droplets and the edges v3 -> apps, apps -> apps, apps -> droplets, labelled
\* with the canonical paths; with abc-guid and xyz-guid, which are no UUIDs,
\* the two words are nodes themselves.  The program ends with an exception
\* only on a further document of the form {"links": {}}, with TypeError.
C15_ScenarioGraph ==
    /\ [](\A app, droplet \in ScenarioIds : (ScenarioServed(app, droplet) /\ Returned) =>
            /\ fetches = << root_path, <<"/", "v3", "/", "apps">>,
                            <<"/", "v3", "/", "apps", "/", app>>,
                            <<"/", "v3", "/", "apps", "/", app, "/", "droplets", "/", droplet>> >>
            /\ ({app, droplet} \subseteq guid_pattern =>
                  /\ NodeNames(graph) = {<<"v3">>, <<"apps">>, <<"droplets">>}
                  /\ EdgeTriples(graph) =
                       { <<(<<"v3">>), (<<"apps">>), (<<"/", "v3", "/", "apps">>)>>,
                         <<(<<"apps">>), (<<"apps">>), (<<"/", "v3", "/", "apps", "/", ":guid">>)>>,
                         <<(<<"apps">>), (<<"droplets">>),
                           (<<"/", "v3", "/", "apps", "/", ":guid", "/", "droplets", "/", ":guid">>)>> })
            /\ ((app = "abc-guid" /\ droplet = "xyz-guid") =>
                  /\ NodeNames(graph) = {<<"v3">>, <<"apps">>, <<"abc-guid">>, <<"xyz-guid">>}
                  /\ EdgePairs(graph) = { <<(<<"v3">>), (<<"apps">>)>>, <<(<<"apps">>), (<<"abc-guid">>)>>,
                                          <<(<<"apps">>), (<<"xyz-guid">>)>> }))
    /\ [](main_pc = "crashed" =>
            /\ error = "TypeError"
            /\ response.doc = [keys |-> {"links"}, links |-> <<>>, resources |-> <<>>])
    /\ <>(main_pc \in {"drawn", "crashed"})

\* C15 witness: the crawl of the scenario with two UUIDs has returned and the
\* graph is drawn.
C15_Witness ==
    /\ main_pc = "drawn"
    /\ ScenarioServed(G1, G2)
    /\ Len(served) = 4
    /\ NodeNames(graph) = {<<"v3">>, <<"apps">>, <<"droplets">>}

\* C16: the canonical path of root is in visited_paths before root is fetched
\* and before any of its links is processed or followed: it is there for every
\* call that is past line 125, for every fetch made, at the moment of each
\* fetch and of each nested call, and visited_paths never loses an element.
C16_InsertBeforeRecurse ==
    /\ [](/\ \A f \in Frames : f.pc \in {"fetch", "loop"} => generic_path(f.root) \in visited_paths
          /\ \A k \in DOMAIN fetches : generic_path(fetches[k]) \in visited_paths)
    /\ [][ /\ visited_paths \subseteq visited_paths'
           /\ fetches' # fetches => generic_path(Top.root) \in visited_paths
           /\ Len(stack') > Len(stack) /\ stack # <<>> =>
                 generic_path(Top.root) \in visited_paths ]_vars

\* C16 witness: a nested call is about to fetch; its path and its caller's are
\* visited and only the caller's has been fetched.
C16_Witness ==
    /\ Len(stack) = 2 /\ Top.pc = "fetch"
    /\ visited_paths = {stack[1].root_sans_guid, stack[2].root_sans_guid}
    /\ stack[1].root_sans_guid # stack[2].root_sans_guid
    /\ Len(fetches) = 1

\* the links extracted from the documents fetched so far
ExtractedLinks == UNION { {served[k][j] : j \in DOMAIN served[k]} : k \in DOMAIN served }

\* the canonical paths expanded so far: those of the paths fetched
Expanded == {generic_path(fetches[k]) : k \in DOMAIN fetches}

\* C17: when find_all_paths(root) has returned, visited_paths holds the
\* canonical path of the root and of every followable link extracted from any
\* document fetched, and each of these paths has been fetched.
C17_ClosureAtTermination ==
    main_pc = "crawled" =>
        /\ Len(served) = Len(fetches)
        /\ generic_path(root_path) \in visited_paths \cap Expanded
        /\ \A l \in ExtractedLinks :
               FollowableByAttributes(l) => generic_path(l.path) \in visited_paths \cap Expanded

\* C17 witness: the crawl has returned after three fetches; it had met a link
\* that is not followable, and a followable link to an app in two documents.
C17_Witness ==
    /\ main_pc = "crawled"
    /\ Len(served) = 3
    /\ \E l \in ExtractedLinks : ~FollowableByAttributes(l)
    /\ \E a, b \in DOMAIN served : a # b /\ \E i \in DOMAIN served[a], j \in DOMAIN served[b] :
          /\ FollowableByAttributes(served[a][i])
          /\ generic_path(served[a][i].path) = app_path
          /\ generic_path(served[b][j].path) = app_path

\* the last segment of a canonical path that is not a placeholder
LastNonPlaceholder(canonical) ==
    LET names == SelectSeq(Split(canonical), LAMBDA seg : seg \notin placeholders)
    IN  names[Len(names)]

\* for every link extracted so far: the resource of the path its document was
\* fetched for, and the canonical path of the link
LinksBySource ==
    UNION { Bind(infer_resource(fetches[k]),
                 LAMBDA source : {<<source, generic_path(served[k][j].path)>> : j \in DOMAIN served[k]}) :
            k \in DOMAIN served }

\* C18: every edge (source, destination, relation) of the graph comes from a
\* link: relation is the canonical path of a link extracted from a document
\* fetched for a path whose resource is source, destination is the resource
\* inferred from relation, and both are vertices of the graph.
C18_EdgesWellFormed ==
    \E links \in {LinksBySource} :
        \A e \in DOMAIN graph.elist :
            /\ graph.elist[e][1] \in DOMAIN graph.v_names
            /\ graph.elist[e][2] \in DOMAIN graph.v_names
            /\ <<graph.v_names[graph.elist[e][1]], graph.e_names[e]>> \in links
            /\ graph.v_names[graph.elist[e][2]] = LastNonPlaceholder(graph.e_names[e])

\* C18 witness: the graph has edges from apps to a resource outside v3 and from
\* apps to itself, and an edge from the root.
C18_Witness ==
    /\ <<(<<"apps">>), (<<"spaces">>), (<<"/", "v2", "/", "spaces", "/", ":guid">>)>> \in EdgeTriples(graph)
    /\ <<(<<"apps">>), (<<"apps">>), app_path>> \in EdgeTriples(graph)
    /\ <<(<<"v3">>), (<<"apps">>), apps_path>> \in EdgeTriples(graph)

(***************************************************************************)
(* The two-phase algorithm of the design, run on the documents the crawl   *)
(* was served: the n-th fetch is answered with served[n].  Its state is    *)
(* the visited set, the graph, the fetches made and their number; ok turns *)
(* FALSE when it fetches more often than the crawl did.                    *)
(***************************************************************************)
TwoPhaseStart ==
    [visited |-> {}, graph |-> EmptyGraph, fetches |-> <<>>, n |-> 0, ok |-> TRUE]

\* step 3 for the links from the i-th on: the destination node and the edge of
\* every link, followable or not
RECURSIVE TwoPhaseEdges(_, _, _, _)
TwoPhaseEdges(g, name, links, i) ==
    IF i > Len(links) THEN g
    ELSE LET canonical == generic_path(links[i].path)
             destination == infer_resource(links[i].path)
             g1 == add_resource_if_new(g, destination, is_v3(links[i]))
         IN  TwoPhaseEdges(add_link_if_new(g1, name, destination, canonical), name, links, i + 1)

RECURSIVE TwoPhaseCrawl(_, _)
RECURSIVE TwoPhaseRecurse(_, _, _)

\* steps 1 to 4 for root
TwoPhaseCrawl(root, st) ==
    LET name == infer_resource(root)
        st1 == [st EXCEPT !.visited = @ \cup {generic_path(root)},
                          !.graph = add_resource_if_new(@, name, TRUE),
                          !.fetches = Append(@, root),
                          !.n = @ + 1]
    IN  IF st.n >= Len(served) THEN [st1 EXCEPT !.ok = FALSE]
        ELSE LET links == served[st.n + 1]
             IN  TwoPhaseRecurse(links, 1, [st1 EXCEPT !.graph = TwoPhaseEdges(@, name, links, 1)])

\* step 4 for the links from the i-th on: recurse into each followable link
\* whose canonical path is not visited at that moment
TwoPhaseRecurse(links, i, st) ==
    IF i > Len(links) THEN st
    ELSE IF FollowableByAttributes(links[i]) /\ generic_path(links[i].path) \notin st.visited
    THEN TwoPhaseRecurse(links, i + 1, TwoPhaseCrawl(links[i].path, st))
    ELSE TwoPhaseRecurse(links, i + 1, st)

TwoPhaseResult == TwoPhaseCrawl(root_path, TwoPhaseStart)

\* C19: on an API whose fetches all succeed, the crawl as implemented and the
\* two-phase algorithm make the same fetches in the same order and end with the
\* same visited set, the same nodes and the same edges.
C19_EquivalentToTwoPhase ==
    main_pc = "crawled" =>
        \E r \in {TwoPhaseResult} :
            /\ r.ok /\ r.n = Len(served)
            /\ r.fetches = fetches
            /\ r.visited = visited_paths
            /\ NodeNames(r.graph) = NodeNames(graph)
            /\ EdgeTriples(r.graph) = EdgeTriples(graph)

\* C19 witness: the crawl has returned after three fetches, and the two
\* algorithms created the vertices in different orders.
C19_Witness ==
    /\ main_pc = "crawled"
    /\ Len(fetches) = 3
    /\ TwoPhaseResult.graph.v_names # graph.v_names
    /\ NodeNames(TwoPhaseResult.graph) = NodeNames(graph)

====
